---- MODULE Spec2Model ----
(***************************************************************************)
(* css_make: GF(2) row reduction (css_make/utils.py) and the CSS code      *)
(* model with lazily cached derived fields (css_make/css.py).              *)
(*                                                                         *)
(* A matrix is a record [nr, nc, a]: its shape and its entries, a function *)
(* [0..nr-1 -> [0..nc-1 -> {0,1}]] indexed from 0 as numpy indexes it.     *)
(* Lists (pivot_cols, elimination_range) are sequences of 0-based indices. *)
(***************************************************************************)
EXTENDS Integers, Sequences, FiniteSets, TLC

VARIABLES re, obj, last, input, supplied, mode

vars == <<re, obj, last, input, supplied, mode>>

(* ------------------------------ bounds --------------------------------- *)
MaxRows == 3
MaxCols == 2
\* shapes of the parity-check matrices hx, hz
CssRows == 2
CssCols == 3
\* how often the body of one field may run before the model stops reading
MaxRuns == 2
\* the largest repetition code next to the one of main.py
MaxRep == 3

(* --------------------------- GF(2) matrices ---------------------------- *)
Bit == {0, 1}

\* what an operation yields in place of an array when numpy raises ValueError
ValueError == [err |-> "ValueError"]

Mat(m, n) == {[nr |-> m, nc |-> n, a |-> f] : f \in [0..(m-1) -> [0..(n-1) -> Bit]]}

\* the m x n array of the entries f[i][k]
Array(m, n, f) ==
  [nr |-> m, nc |-> n, a |-> [i \in 0..(m-1) |-> [k \in 0..(n-1) |-> f[i][k]]]]

\* np.identity(n).astype(int)
Identity(n) ==
  Array(n, n, [i \in 0..(n-1) |-> [k \in 0..(n-1) |-> IF i = k THEN 1 ELSE 0]])

Zeros(m, n) == Array(m, n, [i \in 0..(m-1) |-> [k \in 0..(n-1) |-> 0]])

\* A.T
Transpose(A) ==
  Array(A.nc, A.nr, [i \in 0..(A.nc-1) |-> [k \in 0..(A.nr-1) |-> A.a[k][i]]])

\* sum_k u[k]*v[k] % 2 over k in 0..n-1
Dot(u, v, n) == Cardinality({k \in 0..(n-1) : u[k] = 1 /\ v[k] = 1}) % 2

\* A @ B % 2; numpy raises ValueError when the inner dimensions differ
MatMul(A, B) ==
  IF A.nc # B.nr THEN ValueError
  ELSE Array(A.nr, B.nc,
             [i \in 0..(A.nr-1) |-> [k \in 0..(B.nc-1) |->
                Dot(A.a[i], [t \in 0..(A.nc-1) |-> B.a[t][k]], A.nc)]])

\* (u + v) % 2 on rows
AddRows(u, v) == [k \in DOMAIN u |-> (u[k] + v[k]) % 2]

\* not M.any()
IsZero(M) == \A i \in 0..(M.nr-1) : \A k \in 0..(M.nc-1) : M.a[i][k] = 0

(* ---------------------- utils.py: to_ndarray_copy ---------------------- *)
\* Every branch returns a new dense array: np.copy, toarray(), np.array(copy=True).
to_ndarray_copy(matrix) == [value |-> matrix, fresh |-> TRUE]

(* ------------------------ utils.py: row_echelon ------------------------ *)
\* The state of one call: the locals of row_echelon plus the caller's array
\* (matrix), which the_matrix shares storage with only if the copy is not fresh.
NewRun(matrix, full) ==
  LET c == to_ndarray_copy(matrix) IN
  [matrix |-> matrix, fresh |-> c.fresh, full |-> full,
   num_rows |-> matrix.nr, num_cols |-> matrix.nc,
   the_matrix |-> c.value,
   transform_matrix |-> Identity(matrix.nr),
   pivot_row |-> 0, pivot_cols |-> <<>>,
   col |-> 0, elimination_range |-> <<>>,
   pc |-> IF matrix.nc = 0 THEN "return" ELSE "select",
   ret |-> <<>>]

\* A write of row i of the_matrix; it lands in the caller's array too when
\* the two share storage.
SetRow(s, i, row) ==
  LET W == [s.the_matrix EXCEPT !.a[i] = row] IN
  [s EXCEPT !.the_matrix = W,
            !.matrix = IF s.fresh THEN s.matrix ELSE W]

\* pivot_row + np.argmax(the_matrix[pivot_row:num_rows, col]): the first row at
\* or below pivot_row holding the largest entry of the column slice.
ArgmaxFirst(W, from, to, col) ==
  LET ones == {i \in from..to : W.a[i][col] = 1} IN
  IF ones = {} THEN from
  ELSE CHOOSE i \in ones : \A k \in ones : i <= k

swap_row_index(s) == ArgmaxFirst(s.the_matrix, s.pivot_row, s.num_rows - 1, s.col)

\* the_matrix[[a, b]] = the_matrix[[b, a]]; transform_matrix[[a, b]] = transform_matrix[[b, a]]
SwapRows(s, x, y) ==
  LET rx == s.the_matrix.a[x]
      ry == s.the_matrix.a[y]
      tx == s.transform_matrix.a[x]
      ty == s.transform_matrix.a[y]
      s1 == SetRow(SetRow(s, x, ry), y, rx)
  IN [s1 EXCEPT !.transform_matrix.a[x] = ty, !.transform_matrix.a[y] = tx]

\* the mutant adds the pivot row to the_matrix[j] but leaves the transform alone
AddPivotRowNoTransform(s, j) ==
  SetRow(s, j, AddRows(s.the_matrix.a[j], s.the_matrix.a[s.pivot_row]))

\* the_matrix[j] = (the_matrix[j] + the_matrix[pivot_row]) % 2, and the same on
\* transform_matrix
AddPivotRow(s, j) ==
  LET s1 == SetRow(s, j, AddRows(s.the_matrix.a[j], s.the_matrix.a[s.pivot_row]))
  IN [s1 EXCEPT !.transform_matrix.a[j] =
        AddRows(s.transform_matrix.a[j], s.transform_matrix.a[s.pivot_row])]

\* the increasing sequence of the integers lo..hi that are not skip
RECURSIVE RangeSeq(_, _, _)
RangeSeq(lo, hi, skip) ==
  IF lo > hi THEN <<>>
  ELSE IF lo = skip THEN RangeSeq(lo + 1, hi, skip)
  ELSE <<lo>> \o RangeSeq(lo + 1, hi, skip)

\* the mutant's range skips the row right below the pivot
EliminationRangeSkip(s) ==
  IF ~s.full THEN RangeSeq(s.pivot_row + 2, s.num_rows - 1, s.pivot_row)
  ELSE RangeSeq(0, s.num_rows - 1, s.pivot_row)

\* range(pivot_row + 1, num_rows), or every row but pivot_row when full
EliminationRange(s) ==
  IF ~s.full THEN RangeSeq(s.pivot_row + 1, s.num_rows - 1, s.pivot_row)
  ELSE RangeSeq(0, s.num_rows - 1, s.pivot_row)

\* lines 84-95: bring a 1 to the pivot position when a row below has one
SelectStep(s) ==
  LET W == s.the_matrix
      k == swap_row_index(s)
  IN IF W.a[s.pivot_row][s.col] # 1 /\ W.a[k][s.col] = 1
     THEN [SwapRows(s, k, s.pivot_row) EXCEPT !.pc = "pivot"]
     ELSE [s EXCEPT !.pc = "pivot"]

\* lines 98-103: with a pivot, fix the rows to clear; without, on to the next column
PivotStep(s) ==
  IF s.the_matrix.a[s.pivot_row][s.col] = 1
  THEN [s EXCEPT !.elimination_range = EliminationRange(s), !.pc = "eliminate"]
  ELSE [s EXCEPT !.pc = "next"]

\* the mutant adds the pivot row to every row of the range, whatever its entry
EliminateStepAlways(s) ==
  [AddPivotRow(s, Head(s.elimination_range))
     EXCEPT !.elimination_range = Tail(s.elimination_range)]

\* lines 106-114, one iteration of the loop over elimination_range
EliminateStep(s) ==
  LET j == Head(s.elimination_range)
      s1 == IF s.the_matrix.a[j][s.col] # 0 /\ s.pivot_row # j
            THEN AddPivotRow(s, j) ELSE s
  IN [s1 EXCEPT !.elimination_range = Tail(s.elimination_range)]

\* lines 116-117
AdvanceStep(s) ==
  [s EXCEPT !.pivot_row = s.pivot_row + 1,
            !.pivot_cols = Append(s.pivot_cols, s.col),
            !.pc = "next"]

\* lines 119-121 and the loop header: leave the loop or take the next column
NextStep(s) ==
  IF s.pivot_row >= s.num_rows \/ s.col + 1 >= s.num_cols
  THEN [s EXCEPT !.pc = "return"]
  ELSE [s EXCEPT !.col = s.col + 1, !.pc = "select"]

\* lines 123-127
ReturnStep(s) ==
  [s EXCEPT !.ret = <<s.the_matrix, s.pivot_row, s.transform_matrix, s.pivot_cols>>,
            !.pc = "done"]

\* lines 106-114: the whole loop over elimination_range
RECURSIVE EliminateAll(_)
EliminateAll(s) ==
  IF s.elimination_range = <<>> THEN s ELSE EliminateAll(EliminateStep(s))

\* lines 105-117: with a pivot, clear its column and record it
ClearColumn(s) == IF s.pc = "eliminate" THEN AdvanceStep(EliminateAll(s)) ELSE s

\* lines 81-121: one pass of the loop over the columns
ColumnPass(s) == NextStep(ClearColumn(PivotStep(SelectStep(s))))

RECURSIVE RunToEnd(_)
RunToEnd(s) == IF s.pc = "return" THEN ReturnStep(s) ELSE RunToEnd(ColumnPass(s))

\* row_echelon(matrix, full) = [row_esch_matrix, matrix_rank, transform_matrix, pivot_cols]
row_echelon(matrix, full) == RunToEnd(NewRun(matrix, full)).ret

\* placeholders of the variables a specification does not use
NoObject == [kind |-> "none"]
NoCall == [op |-> "none"]
NoRun == [pc |-> "none"]

(* --------------- the row_echelon call as a state machine --------------- *)
REInputs == UNION {Mat(m, n) : m \in 1..MaxRows, n \in 0..MaxCols}

REInit ==
  /\ mode = "row_echelon"
  /\ obj = NoObject /\ last = NoCall /\ supplied = NoObject
  /\ \E M \in REInputs, full \in BOOLEAN :
       /\ input = M
       /\ re = NewRun(M, full)

RESelect == re.pc = "select" /\ re' = SelectStep(re) /\ UNCHANGED <<obj, last, input, supplied, mode>>
REPivot == re.pc = "pivot" /\ re' = PivotStep(re) /\ UNCHANGED <<obj, last, input, supplied, mode>>
REEliminate ==
  /\ re.pc = "eliminate" /\ re.elimination_range # <<>>
  /\ re' = EliminateStep(re) /\ UNCHANGED <<obj, last, input, supplied, mode>>
REAdvance ==
  /\ re.pc = "eliminate" /\ re.elimination_range = <<>>
  /\ re' = AdvanceStep(re) /\ UNCHANGED <<obj, last, input, supplied, mode>>
RENextCol == re.pc = "next" /\ re' = NextStep(re) /\ UNCHANGED <<obj, last, input, supplied, mode>>
REReturn == re.pc = "return" /\ re' = ReturnStep(re) /\ UNCHANGED <<obj, last, input, supplied, mode>>

RENext == RESelect \/ REPivot \/ REEliminate \/ REAdvance \/ RENextCol \/ REReturn

SpecRE == REInit /\ [][RENext]_vars

\* the GF(2) rank of M, from the size of its row space (2^rank vectors):
\* the span of the first k rows
RECURSIVE SpanOf(_, _)
SpanOf(M, k) ==
  IF k = 0 THEN {[c \in 0..(M.nc-1) |-> 0]}
  ELSE LET S == SpanOf(M, k - 1) IN S \cup {AddRows(v, M.a[k-1]) : v \in S}

RowSpace(M) == SpanOf(M, M.nr)

Rank(M) == CHOOSE r \in 0..M.nr : 2^r = Cardinality(RowSpace(M))

REDone == mode = "row_echelon" /\ re.pc = "done"

StrictlyIncreasing(P) == \A i, k \in 1..Len(P) : i < k => P[i] < P[k]

C10_TransformInvariant ==
  mode = "row_echelon" =>
    /\ MatMul(re.transform_matrix, input) = re.the_matrix
    /\ re.matrix = input

\* in the middle of the loop, after a swap and an addition changed both matrices
C10_Witness ==
  /\ mode = "row_echelon" /\ re.pc = "eliminate"
  /\ re.the_matrix # input
  /\ re.transform_matrix # Identity(re.num_rows)
  /\ \E i \in 0..(re.num_rows-1) :
       Cardinality({k \in 0..(re.num_rows-1) : re.transform_matrix.a[i][k] = 1}) >= 2
  /\ re.transform_matrix.a[0][0] = 0
(* ------------------- numpy helpers used by css.py ---------------------- *)
\* np.vstack([A, B]); ValueError when the column counts differ
VStack(A, B) ==
  IF A.nc # B.nc THEN ValueError
  ELSE Array(A.nr + B.nr, A.nc,
             [i \in 0..(A.nr + B.nr - 1) |-> [k \in 0..(A.nc-1) |->
                IF i < A.nr THEN A.a[i][k] ELSE B.a[i - A.nr][k]]])

\* np.hstack([A, B]); ValueError when the row counts differ
HStack(A, B) ==
  IF A.nr # B.nr THEN ValueError
  ELSE Array(A.nr, A.nc + B.nc,
             [i \in 0..(A.nr-1) |-> [k \in 0..(A.nc + B.nc - 1) |->
                IF k < A.nc THEN A.a[i][k] ELSE B.a[i][k - A.nc]]])

\* np.kron(A, B)
Kron(A, B) ==
  Array(A.nr * B.nr, A.nc * B.nc,
        [i \in 0..(A.nr * B.nr - 1) |-> [k \in 0..(A.nc * B.nc - 1) |->
           A.a[i \div B.nr][k \div B.nc] * B.a[i % B.nr][k % B.nc]]])

\* M[idx] for a list idx of row indices
SelectRows(M, idx) ==
  Array(Len(idx), M.nc, [i \in 0..(Len(idx)-1) |-> [k \in 0..(M.nc-1) |-> M.a[idx[i + 1]][k]]])

SeqSet(q) == {q[i] : i \in 1..Len(q)}

\* [i for i in range(lo, hi) if i in keep]
RECURSIVE FilterRange(_, _, _)
FilterRange(lo, hi, keep) ==
  IF lo >= hi THEN <<>>
  ELSE IF lo \in keep THEN <<lo>> \o FilterRange(lo + 1, hi, keep)
  ELSE FilterRange(lo + 1, hi, keep)

Max(S) == CHOOSE x \in S : \A y \in S : y <= x
Min(S) == CHOOSE x \in S : \A y \in S : x <= y

(* ---------------- the GF(2) engine css.py imports (mod2) --------------- *)
\* mod2.row_echelon: the reduction of utils.row_echelon; a matrix without rows
\* has nothing to reduce
mod2_row_echelon(M, full) ==
  IF M.nr = 0 THEN <<M, 0, Identity(0), <<>>>> ELSE row_echelon(M, full)

\* mod2.rank(M): the rank row_echelon(M, full=False) reports
mod2_rank(M) == mod2_row_echelon(M, FALSE)[2]

\* mod2.row_basis(M): the rows of M that are independent of the rows before
\* them, the pivot columns of the reduced transpose
mod2_row_basis(M) == SelectRows(M, mod2_row_echelon(Transpose(M), FALSE)[4])

\* mod2.nullspace(M): one vector per free column f of the fully reduced form E:
\* 1 at f, E[i][f] at the i-th pivot column, 0 at the other free columns
nullspace_rows(M, E, P, free) ==
     Array(Len(free), M.nc,
           [i \in 0..(Len(free)-1) |-> [k \in 0..(M.nc-1) |->
              IF k = free[i + 1] THEN 1
              ELSE IF k \in SeqSet(P)
                   THEN E.a[(CHOOSE t \in 1..Len(P) : P[t] = k) - 1][free[i + 1]]
                   ELSE 0]])

\* the free columns are those that are no pivot column of the full reduction e
nullspace_of(M, e) ==
  nullspace_rows(M, e[1], e[4], FilterRange(0, M.nc, (0..(M.nc - 1)) \ SeqSet(e[4])))

mod2_nullspace(M) == nullspace_of(M, mod2_row_echelon(M, TRUE))

\* mod2.inverse(M): the transform of the full reduction of a square full-rank
\* matrix; a singularity error otherwise
mod2_inverse(M) ==
  IF M.nr # M.nc \/ mod2_rank(M) # M.nr THEN ValueError
  ELSE mod2_row_echelon(M, TRUE)[3]

(* --------------------- css.py: CssCode._compute_lz --------------------- *)
\* the mutant keeps the kernel vectors that are NOT pivots of the stack
log_op_indices_nonpivots(first, rows, pivots) ==
  FilterRange(first, rows, (0..(rows - 1)) \ SeqSet(pivots))

\* [i for i in range(im_hzT.shape[0], log_stack.shape[0]) if i in pivots]
log_op_indices(first, rows, pivots) == FilterRange(first, rows, SeqSet(pivots))

\* pivots = mod2.row_echelon(log_stack.T)[3]; log_stack[log_op_indices]
logical_rows(im_hzT, log_stack) ==
  SelectRows(log_stack,
             log_op_indices(im_hzT.nr, log_stack.nr,
                            mod2_row_echelon(Transpose(log_stack), FALSE)[4]))

\* log_stack = np.vstack([im_hzT, ker_hx])
log_stack_of(im_hzT, ker_hx) == logical_rows(im_hzT, VStack(im_hzT, ker_hx))

\* lz in ker{hx} and not in Im(hz.T): the kernel vectors of hx that are pivot
\* columns of the transposed stack [im_hzT; ker_hx]
compute_lz(hx, hz) == log_stack_of(mod2_row_basis(hz), mod2_nullspace(hx))

(* ------------------------- values of attributes ------------------------ *)
\* every Python value the model handles carries its type
IntV(n) == [t |-> "int", v |-> n]
MatV(M) == [t |-> "mat", v |-> M]
BoolV(b) == [t |-> "bool", v |-> b]
StrV(x) == [t |-> "str", v |-> x]
NoneV == [t |-> "None", v |-> 0]
Exc(name) == [t |-> "exc", v |-> name]
\* no entry of that name in the instance's __dict__
Absent == [t |-> "absent", v |-> 0]

\* the cached_property names of CssCode
Fields ==
  {"N", "K", "L", "Q", "h", "lx", "lz", "l", "canonical_lx", "canonical_lz",
   "D", "valid", "code_params"}

\* an operation's outcome: the instance after it and the value it returned
\* (or the exception it raised)
R(o, v) == [o |-> o, v |-> v]

Raised(r) == r.v.t = "exc"

(* ---------------------- css.py: the CssCode fields --------------------- *)
\* getattr(self, name), the attribute read self.name: see below, after the
\* functions it may call
RECURSIVE getattr(_, _)

\* x.shape of the attribute value r read: AttributeError unless it is an array
ShapeOf(r) ==
  IF Raised(r) THEN r
  ELSE IF r.v.t # "mat" THEN R(r.o, Exc("AttributeError"))
  ELSE r

\* a numpy result that is ValueError raises, anything else is an array
Arr(o, x) == IF x = ValueError THEN R(o, Exc("ValueError")) ELSE R(o, MatV(x))


N(o) ==
  IF o.hx.nc # o.hz.nc THEN R(o, Exc("Exception")) ELSE R(o, IntV(o.hx.nc))

\* n - rank(hx) - rank(hz) of the value n read from N
K_of(o, n) ==
  IF Raised(n) THEN n
  ELSE IF n.v.t # "int" THEN R(n.o, Exc("TypeError"))
  ELSE R(n.o, IntV(n.v.v - mod2_rank(o.hx) - mod2_rank(o.hz)))

\* the mutant subtracts the rank of hx only
K_one_rank(o) == K_of([o EXCEPT !.hz = Zeros(1, o.hz.nc)], getattr(o, "N"))

\* self.N - mod2.rank(self.hx) - mod2.rank(self.hz)
K(o) == K_of(o, getattr(o, "N"))

\* np.sum(M, axis=0): the column weights; np.max of none of them raises
ColWeights(M) == {Cardinality({i \in 0..(M.nr-1) : M.a[i][k] = 1}) : k \in 0..(M.nc-1)}
\* np.sum(M, axis=1): the row weights
RowWeights(M) == {Cardinality({k \in 0..(M.nc-1) : M.a[i][k] = 1}) : i \in 0..(M.nr-1)}

L(o) ==
  IF ColWeights(o.hx) = {} \/ ColWeights(o.hz) = {} THEN R(o, Exc("ValueError"))
  ELSE R(o, IntV(Max({Max(ColWeights(o.hx)), Max(ColWeights(o.hz))})))

Q(o) ==
  IF RowWeights(o.hx) = {} \/ RowWeights(o.hz) = {} THEN R(o, Exc("ValueError"))
  ELSE R(o, IntV(Max({Max(RowWeights(o.hx)), Max(RowWeights(o.hz))})))

\* np.hstack([top, bot]) of the two stacked columns
BlockRow(o, top, bot) ==
  IF top = ValueError \/ bot = ValueError THEN R(o, Exc("ValueError"))
  ELSE Arr(o, HStack(top, bot))

\* np.hstack([np.vstack([zeros(z.shape), x]), np.vstack([z, zeros(x.shape)])])
BlockStack(o, x, z) ==
  BlockRow(o, VStack(Zeros(z.nr, z.nc), x), VStack(z, Zeros(x.nr, x.nc)))

h(o) == BlockStack(o, o.hx, o.hz)

lx(o) == R(o, MatV(compute_lz(o.hz, o.hx)))

lz(o) == R(o, MatV(compute_lz(o.hx, o.hz)))

l_stack(z, x) == IF Raised(x) THEN x ELSE BlockStack(x.o, x.v.v, z.v.v)

l_lx(z) == IF Raised(z) THEN z ELSE l_stack(z, ShapeOf(getattr(z.o, "lx")))

\* np.vstack([np.zeros(self.lz.shape), self.lx]) ...: lz is read first, then lx
l(o) == l_lx(ShapeOf(getattr(o, "lz")))

\* temp @ self.lx % 2
canonical_lx_apply(o, temp, x) ==
  IF temp = ValueError THEN R(o, Exc("ValueError")) ELSE Arr(o, MatMul(temp, x))

\* temp = mod2.inverse(self.lx @ self.lz.T % 2)
canonical_lx_temp(o, prod, x) ==
  IF prod = ValueError THEN R(o, Exc("ValueError"))
  ELSE canonical_lx_apply(o, mod2_inverse(prod), x)

canonical_lx_of(x, z) ==
  IF Raised(z) THEN z
  ELSE canonical_lx_temp(z.o, MatMul(x.v.v, Transpose(z.v.v)), x.v.v)

canonical_lx_lz(x) == IF Raised(x) THEN x ELSE canonical_lx_of(x, ShapeOf(getattr(x.o, "lz")))

\* mod2.inverse(self.lx @ self.lz.T % 2) @ self.lx % 2: lx is read first
canonical_lx(o) == canonical_lx_lz(ShapeOf(getattr(o, "lx")))

canonical_lz(o) == getattr(o, "lz")

\* compute_code_distance, the opaque oracle: every call is counted; its
\* answers are those fixed for the run (o.dist)
Oracle(o, args) == [o EXCEPT !.oracle = @ + Cardinality(args)]

\* the matrices D asks the oracle about: hx and hz in CssCode.D; h1, h1.T, h2
\* and h2.T in HGP.D
DistanceArgs(o) == IF o.kind = "HGP" THEN {"h1", "h1T", "h2", "h2T"} ELSE {"hx", "hz"}

\* min over the oracle's answers
D(o) ==
  R(Oracle(o, DistanceArgs(o)), IntV(Min({o.dist[x] : x \in DistanceArgs(o)})))

\* f"({self.L},{self.Q})-[[{self.N},{self.K},{self.D}]]": L, Q, N, K, D are
\* read in this order and the first exception ends the formatting
code_params_of(vL, vQ, vN, vK, d) ==
  IF Raised(d) THEN d ELSE R(d.o, StrV(<<vL, vQ, vN, vK, d.v>>))

code_params_D(vL, vQ, vN, k) ==
  IF Raised(k) THEN k ELSE code_params_of(vL, vQ, vN, k.v, getattr(k.o, "D"))

code_params_K(vL, vQ, n) ==
  IF Raised(n) THEN n ELSE code_params_D(vL, vQ, n.v, getattr(n.o, "K"))

code_params_N(vL, q) ==
  IF Raised(q) THEN q ELSE code_params_K(vL, q.v, getattr(q.o, "N"))

code_params_Q(r) == IF Raised(r) THEN r ELSE code_params_N(r.v, getattr(r.o, "Q"))

code_params(o) == code_params_Q(getattr(o, "L"))

(* ------------------ css.py: the validity suite (test) ------------------ *)
\* int == int in Python
PyEq(v, n) == v.t = "int" /\ v.v = n

\* not prod.any()
NoneSet(o, prod) ==
  IF prod = ValueError THEN R(o, Exc("ValueError")) ELSE R(o, BoolV(IsZero(prod)))

\* not (A @ B.T % 2).any()
ProductIsZero(o, A, B) == NoneSet(o, MatMul(A, Transpose(B)))

\* self.K == self.lz.shape[0] == self.lx.shape[0], with the short circuit of
\* Python's chained comparison
BlockRows_of(z, x) == IF Raised(x) THEN x ELSE R(x.o, BoolV(z.nr = x.v.v.nr))

BlockRows_lx(k, z) ==
  IF Raised(z) THEN z
  ELSE IF ~PyEq(k, z.v.v.nr) THEN R(z.o, BoolV(FALSE))
  ELSE BlockRows_of(z.v.v, ShapeOf(getattr(z.o, "lx")))

BlockRows_lz(k) == IF Raised(k) THEN k ELSE BlockRows_lx(k.v, ShapeOf(getattr(k.o, "lz")))

BlockRows(o) == BlockRows_lz(getattr(o, "K"))

\* self.N == self.lz.shape[1] == self.lx.shape[1] and <BlockRows>, with the
\* short circuit of the chained comparison and of "and"
BlockDimensions_of(z, x) ==
  IF Raised(x) THEN x
  ELSE IF z.nc # x.v.v.nc THEN R(x.o, BoolV(FALSE))
  ELSE BlockRows(x.o)

BlockDimensions_lx(n, z) ==
  IF Raised(z) THEN z
  ELSE IF ~PyEq(n, z.v.v.nc) THEN R(z.o, BoolV(FALSE))
  ELSE BlockDimensions_of(z.v.v, ShapeOf(getattr(z.o, "lx")))

BlockDimensions_lz(n) ==
  IF Raised(n) THEN n ELSE BlockDimensions_lx(n.v, ShapeOf(getattr(n.o, "lz")))

BlockDimensions(o) == BlockDimensions_lz(getattr(o, "N"))

PcmsCommuteZX(o) == ProductIsZero(o, o.hz, o.hx)
PcmsCommuteXZ(o) == ProductIsZero(o, o.hx, o.hz)

\* not (A @ r.T % 2).any() for the attribute r read
InKernel(A, r) == IF Raised(r) THEN r ELSE ProductIsZero(r.o, A, r.v.v)

\* not (self.hz @ self.lx.T % 2).any()
LxInKerHz(o) == InKernel(o.hz, ShapeOf(getattr(o, "lx")))

\* not (self.hx @ self.lz.T % 2).any()
LzInKerHx(o) == InKernel(o.hx, ShapeOf(getattr(o, "lz")))

\* mod2.rank(self.lx @ self.lz.T % 2) == self.K: lx, lz, then K are read
LogicalsAnticommute_of(rk, k) ==
  IF Raised(k) THEN k ELSE R(k.o, BoolV(PyEq(k.v, rk)))

LogicalsAnticommute_K(o, prod) ==
  IF prod = ValueError THEN R(o, Exc("ValueError"))
  ELSE LogicalsAnticommute_of(mod2_rank(prod), getattr(o, "K"))

LogicalsAnticommute_lz(x, z) ==
  IF Raised(z) THEN z
  ELSE LogicalsAnticommute_K(z.o, MatMul(x.v.v, Transpose(z.v.v)))

LogicalsAnticommute_lx(x) ==
  IF Raised(x) THEN x ELSE LogicalsAnticommute_lz(x, ShapeOf(getattr(x.o, "lz")))

LogicalsAnticommute(o) == LogicalsAnticommute_lx(ShapeOf(getattr(o, "lx")))

NumTests == 6

\* _tests_list[i-1][1](self)
tests_list(i, o) ==
  CASE i = 1 -> BlockDimensions(o)
    [] i = 2 -> PcmsCommuteZX(o)
    [] i = 3 -> PcmsCommuteXZ(o)
    [] i = 4 -> LxInKerHz(o)
    [] i = 5 -> LzInKerHx(o)
    [] i = 6 -> LogicalsAnticommute(o)

\* results[test_name] of an evaluation r: its value, or None if it raised
Recorded(r) == IF Raised(r) THEN NoneV ELSE r.v

RECURSIVE RunTestsAbort(_, _, _, _)
RunTestsAbort_next(i, results, raw, r) ==
  RunTestsAbort(r.o, i + 1, Append(results, Recorded(r)), Append(raw, r.v))

\* the mutant's handler lets the first exception end the loop: the checks
\* after it are recorded as None without being evaluated
RunTestsAbort(o, i, results, raw) ==
  IF i > NumTests THEN [o |-> o, results |-> results, raw |-> raw]
  ELSE IF \E k \in 1..Len(raw) : raw[k].t = "exc"
       THEN RunTestsAbort(o, i + 1, Append(results, NoneV), Append(raw, NoneV))
       ELSE RunTestsAbort_next(i, results, raw, tests_list(i, o))

RECURSIVE RunTests(_, _, _, _)
RunTests_next(i, results, raw, r) ==
  RunTests(r.o, i + 1, Append(results, Recorded(r)), Append(raw, r.v))

\* lines 166-173: every check in list order inside its own try; an exception
\* stores None. raw keeps what each evaluation did (its value or exception).
RunTests(o, i, results, raw) ==
  IF i > NumTests THEN [o |-> o, results |-> results, raw |-> raw]
  ELSE RunTests_next(i, results, raw, tests_list(i, o))

\* bool(x) of a recorded result
Truthy(v) == v.t = "bool" /\ v.v

\* the mutant aggregates with any()
AnyResult(results) == \E i \in 1..Len(results) : Truthy(results[i])

\* all(results.values())
AllResults(results) == \A i \in 1..Len(results) : Truthy(results[i])

\* str(self) when show is set
Shown(o, show) == IF show THEN getattr(o, "code_params") ELSE R(o, NoneV)

\* return all(results.values()), after the report's str(self) (post)
test_return(c, post) ==
  [o |-> post.o, v |-> IF Raised(post) THEN post.v ELSE BoolV(AllResults(c.results)),
   results |-> c.results, raw |-> c.raw]

test_report(show, c) == test_return(c, Shown(c.o, show))

test_checks(show, pre) ==
  IF Raised(pre) THEN [o |-> pre.o, v |-> pre.v, results |-> <<>>, raw |-> <<>>]
  ELSE test_report(show, RunTests(pre.o, 1, <<>>, <<>>))

\* CssCode.test(show): with show, str(self) (code_params) is formatted before
\* the checks, outside any try, and again in the final report
test(o, show) == test_checks(show, Shown(o, show))

valid_of(t) == R(t.o, t.v)

\* self.test(show=False)
valid(o) == valid_of(test(o, FALSE))

\* the function a cached_property wraps
fget(f, o) ==
  CASE f = "N" -> N(o)
    [] f = "K" -> K(o)
    [] f = "L" -> L(o)
    [] f = "Q" -> Q(o)
    [] f = "h" -> h(o)
    [] f = "lx" -> lx(o)
    [] f = "lz" -> lz(o)
    [] f = "l" -> l(o)
    [] f = "canonical_lx" -> canonical_lx(o)
    [] f = "canonical_lz" -> canonical_lz(o)
    [] f = "D" -> D(o)
    [] f = "valid" -> valid(o)
    [] f = "code_params" -> code_params(o)

\* the body of f is entered: runs[f] counts the runs of the body
cache_miss(o, f) == [o EXCEPT !.runs[f] = @ + 1]

\* the mutant never stores: every read runs the body again
cache_store_never(f, r) ==
  IF Raised(r) THEN r ELSE R([r.o EXCEPT !.completed[f] = @ + 1], r.v)

\* the value the body returned is stored in the instance's __dict__; a body
\* that raised stores nothing. completed[f] counts the runs that returned.
cache_store(f, r) ==
  IF Raised(r) THEN r ELSE R([r.o EXCEPT !.d[f] = r.v, !.completed[f] = @ + 1], r.v)

\* functools.cached_property: the entry of the instance's __dict__ if there is
\* one; otherwise the body runs and its value is stored
cached_property(o, f) ==
  IF o.d[f].t # "absent" THEN R(o, o.d[f])
  ELSE cache_store(f, fget(f, cache_miss(o, f)))

\* getattr(self, name): a cached_property, hx or hz, or no such attribute
getattr(o, name) ==
  IF name \in Fields THEN cached_property(o, name)
  ELSE IF name = "hx" THEN R(o, MatV(o.hx))
  ELSE IF name = "hz" THEN R(o, MatV(o.hz))
  ELSE R(o, Exc("AttributeError"))

(* ---------------------- css.py: __init__ and set ----------------------- *)
\* set(**kwargs): setattr(self, key, value) for each pair, in order; for a
\* cached_property name only a warning is printed first
\* the mutant stores the value and invalidates every other cached slot
setattr_invalidating(o, key, value) ==
  [o EXCEPT !.d = [g \in Fields |-> IF g = key THEN value ELSE Absent]]

\* line 73, setattr(self, key, value): the slot of key, nothing else
setattr(o, key, value) == [o EXCEPT !.d[key] = value]

RECURSIVE set(_, _)
set(o, kwargs) ==
  IF kwargs = <<>> THEN o
  ELSE set(setattr(o, kwargs[1][1], kwargs[1][2]), Tail(kwargs))

\* np.array([[]])
EmptyArray == Zeros(1, 0)

NoFields == [f \in Fields |-> Absent]

\* CssCode.__init__(hx, hz, **kwargs): hx and hz are copied (hz defaults to a
\* copy of hx, hx to the empty array), N is read, and unless N == 0 the
\* keywords are set. The result is the instance, or the exception of N.
NewCssCode(kind, self_hx, self_hz, dist) ==
  [kind |-> kind, hx |-> self_hx, hz |-> self_hz,
   d |-> NoFields, runs |-> [f \in Fields |-> 0],
   completed |-> [f \in Fields |-> 0], oracle |-> 0, dist |-> dist]

\* self.hx = to_ndarray_copy(hx) or the empty array
init_hx(hx) == IF hx.t = "None" THEN EmptyArray ELSE to_ndarray_copy(hx.v).value

\* self.hz = to_ndarray_copy(hz) or a copy of self.hx
init_hz(hx, hz) == IF hz.t = "None" THEN init_hx(hx) ELSE to_ndarray_copy(hz.v).value

\* lines 56-60: return before self.set(**kwargs) when self.N == 0
init_set(n, kwargs) ==
  IF Raised(n) THEN n
  ELSE IF PyEq(n.v, 0) THEN R(n.o, NoneV)
  ELSE R(set(n.o, kwargs), NoneV)

\* __init__ on an instance of the class kind (CssCode or its subclass HGP)
init_as(kind, hx, hz, kwargs, dist) ==
  init_set(getattr(NewCssCode(kind, init_hx(hx), init_hz(hx, hz), dist), "N"), kwargs)

init(hx, hz, kwargs, dist) == init_as("CssCode", hx, hz, kwargs, dist)

(* ------------------------------ css.py: HGP ---------------------------- *)
\* self.h1 = to_ndarray_copy(h1) or the empty array
HGP_h1(h1) == IF h1.t = "None" THEN EmptyArray ELSE to_ndarray_copy(h1.v).value

\* self.h2 = to_ndarray_copy(h2) or a copy of self.h1
HGP_h2(h1, h2) == IF h2.t = "None" THEN HGP_h1(h1) ELSE to_ndarray_copy(h2.v).value

\* np.hstack([np.kron(self.h1, i_n2), np.kron(i_m1, self.h2.T)])
HGP_hx(h1, h2) ==
  HStack(Kron(h1, Identity(h2.nc)), Kron(Identity(h1.nr), Transpose(h2)))

\* the mutant multiplies the factors of hz1 in the other order
HGP_hz_swapped(h1, h2) ==
  HStack(Kron(h2, Identity(h1.nc)), Kron(Transpose(h1), Identity(h2.nr)))

\* np.hstack([np.kron(i_n1, self.h2), np.kron(self.h1.T, i_m2)])
HGP_hz(h1, h2) ==
  HStack(Kron(Identity(h1.nc), h2), Kron(Transpose(h1), Identity(h2.nr)))

\* super().__init__(hx=hx, hz=hz, name=name, **kwargs)
HGP_super(h1, h2, kwargs, dist) ==
  init_as("HGP", MatV(HGP_hx(h1, h2)), MatV(HGP_hz(h1, h2)), kwargs, dist)

\* HGP.__init__(h1, h2, **kwargs)
HGP_init(h1, h2, kwargs, dist) == HGP_super(HGP_h1(h1), HGP_h2(h1, h2), kwargs, dist)

(* ----------------------------- css.py: save ---------------------------- *)
\* how save leaves the loop: the instance, None or the exception, the
\* properties written (one file each) and those reported as skipped
SaveEnd(o, v, files, diag) == [o |-> o, v |-> v, files |-> files, diag |-> diag]

RECURSIVE save(_, _, _, _, _)
\* line 159, save_alist(f"{code_name}_{prop}.alist", getattr(self, prop)): the
\* getattr may raise; an array is written; what the library does with a value
\* that is no array is its own affair: it raises (ok false) or writes (ok true)
save_alist(props, ok, files, diag, r) ==
  IF Raised(r) THEN SaveEnd(r.o, r.v, files, diag)
  ELSE IF r.v.t = "mat" \/ ok
       THEN save(r.o, Tail(props), ok, Append(files, Head(props)), diag)
       ELSE SaveEnd(r.o, Exc("TypeError"), files, diag)

\* lines 157-158 for the outcome r of hasattr's getattr: an exception other
\* than AttributeError leaves save; a missing attribute or a value that is no
\* array prints "Skipping .." and execution goes on to line 159
save_prop(props, ok, files, diag, r) ==
  IF Raised(r) /\ r.v.v # "AttributeError" THEN SaveEnd(r.o, r.v, files, diag)
  ELSE IF Raised(r) \/ r.v.t # "mat"
       THEN save_alist(props, ok, files, Append(diag, Head(props)),
                       getattr(r.o, Head(props)))
       ELSE save_alist(props, ok, files, diag, r)

\* CssCode.save(save_property): the loop over the listed properties
save(o, props, ok, files, diag) ==
  IF props = <<>> THEN SaveEnd(o, NoneV, files, diag)
  ELSE save_prop(props, ok, files, diag, getattr(o, Head(props)))

(* ------------------- operations on one CssCode instance ---------------- *)
\* the instance has an entry for f in its __dict__
Has(f) == obj.d[f].t # "absent"

Alive == obj.kind \in {"CssCode", "HGP"}

CanRun == \A f \in Fields : obj.runs[f] < MaxRuns

Call(op, arg, v, results, raw) ==
  [op |-> op, arg |-> arg, v |-> v, results |-> results, raw |-> raw,
   files |-> <<>>, diag |-> <<>>, props |-> <<>>, hit |-> FALSE]

\* the call op(arg) returned r: the instance and the record of the call
Returned(op, arg, r, hit) ==
  /\ obj' = r.o
  /\ last' = [Call(op, arg, r.v, <<>>, <<>>) EXCEPT !.hit = hit]

\* a read of the attribute f
Read(f) ==
  /\ Alive /\ CanRun
  /\ Returned("read", f, getattr(obj, f), Has(f))
  /\ UNCHANGED <<re, input, supplied, mode>>

\* the matrices the distance oracle is asked about, and its answers in a run:
\* the oracle is opaque, the runs fix one answer per matrix
OracleArgs == {"hx", "hz", "h1", "h1T", "h2", "h2T"}
Dist1 == [x \in OracleArgs |-> IF x = "hx" THEN 2 ELSE 1]

(* ------------- compute_logical on all small pairs (hx, hz) ------------- *)
CLInit ==
  /\ mode = "logicals"
  /\ re = NoRun /\ last = NoCall /\ supplied = NoObject
  /\ \E n \in 1..CssCols, mx \in 1..CssRows, mz \in 1..CssRows :
       \E hx \in Mat(mx, n), hz \in Mat(mz, n) :
         /\ input = [hx |-> hx, hz |-> hz, kwargs |-> <<>>]
         /\ obj = init(MatV(hx), MatV(hz), <<>>, Dist1).o

ReadLx == Read("lx")
ReadLz == Read("lz")

CLNext == ReadLx \/ ReadLz

SpecCL == CLInit /\ [][CLNext]_vars

Commute(hx, hz) == hx.nc = hz.nc /\ IsZero(MatMul(hx, Transpose(hz)))

\* C1: for hx, hz with the same number N of columns and hx @ hz^T = 0, the
\* bases lx = compute_logical(hz, hx) and lz = compute_logical(hx, hz) satisfy
\* lx @ hz^T = 0, lz @ hx^T = 0, both have K = N - rank(hx) - rank(hz) rows,
\* and rank(lx @ lz^T) = K.
C1_LogicalBases ==
  (/\ mode = "logicals"
   /\ Commute(input.hx, input.hz)
   /\ Has("lx") /\ Has("lz")) =>
    LET x == obj.d["lx"].v
        z == obj.d["lz"].v
        k == input.hx.nc - Rank(input.hx) - Rank(input.hz)
    IN /\ IsZero(MatMul(x, Transpose(input.hz)))
       /\ IsZero(MatMul(z, Transpose(input.hx)))
       /\ x.nr = k /\ z.nr = k
       /\ x.nc = input.hx.nc /\ z.nc = input.hx.nc
       /\ Rank(MatMul(x, Transpose(z))) = k

\* both bases computed for a commuting pair of different nonzero matrices with
\* one logical qubit
C1_Witness ==
  /\ mode = "logicals"
  /\ Commute(input.hx, input.hz)
  /\ input.hx # input.hz /\ ~IsZero(input.hx) /\ ~IsZero(input.hz)
  /\ Has("lx") /\ Has("lz")
  /\ obj.d["lx"].v.nr = 1
  /\ obj.d["lx"] # obj.d["lz"]

(* --------------- one instance: reads of its fields and test ------------ *)
\* a matrix from its rows
FromRows(rows) ==
  Array(Len(rows), Len(rows[1]),
        [i \in 0..(Len(rows)-1) |-> [k \in 0..(Len(rows[1])-1) |-> rows[i + 1][k + 1]]])

\* ldpc.codes.hamming_code(3): column k is the binary expansion of k + 1
Hamming74 ==
  FromRows(<< <<0, 0, 0, 1, 1, 1, 1>>,
              <<0, 1, 1, 0, 0, 1, 1>>,
              <<1, 0, 1, 0, 1, 0, 1>> >>)

\* ldpc.codes.rep_code(n): row i has its 1s at the positions i and i + 1
RepCode(n) ==
  Array(n - 1, n,
        [i \in 0..(n-2) |-> [k \in 0..(n-1) |-> IF k = i \/ k = i + 1 THEN 1 ELSE 0]])

\* an array whose column count fits no parity-check matrix of the model
BadShape == FromRows(<< <<1>> >>)

\* the check matrix of the [[4,2,2]] code
Ones4 == FromRows(<< <<1, 1, 1, 1>> >>)

\* the constructor calls of the runs: hx, hz (None when omitted) and keywords
Constructions ==
  << [name |-> "c422", hx |-> MatV(Ones4), hz |-> MatV(Ones4), kwargs |-> <<>>],
     [name |-> "c422_lx", hx |-> MatV(Ones4), hz |-> NoneV,
      kwargs |-> << <<"lx", MatV(BadShape)>> >>],
     [name |-> "noncommuting", hx |-> MatV(FromRows(<< <<1, 1, 0>>, <<0, 1, 1>> >>)),
      hz |-> NoneV, kwargs |-> <<>>],
     [name |-> "empty", hx |-> NoneV, hz |-> NoneV, kwargs |-> <<>>],
     [name |-> "mismatch", hx |-> MatV(FromRows(<< <<1, 1>> >>)),
      hz |-> MatV(FromRows(<< <<1, 1, 1>> >>)), kwargs |-> <<>>] >>

\* the state after CssCode(hx, hz, **kwargs) returned or raised
ConstructedAs(c, r) ==
  /\ input = c
  /\ obj = IF Raised(r) THEN [kind |-> "failed"] ELSE r.o
  /\ last = Call("init", "", r.v, <<>>, <<>>)

Constructed(c, dist) ==
  /\ ConstructedAs(c, init(c.hx, c.hz, c.kwargs, dist))
  /\ supplied = NoObject

CssInit ==
  /\ mode = "instance"
  /\ re = NoRun
  /\ \E i \in 1..Len(Constructions) : Constructed(Constructions[i], Dist1)

ReadField == \E f \in Fields : Read(f)

\* a call of test(show)
Tested(show, t) ==
  /\ obj' = t.o
  /\ last' = Call("test", IF show THEN "show" ELSE "quiet", t.v, t.results, t.raw)

Test(show) ==
  /\ Alive /\ CanRun
  /\ Tested(show, test(obj, show))
  /\ UNCHANGED <<re, input, supplied, mode>>

TestShow == Test(TRUE)
TestQuiet == Test(FALSE)

CssNext == ReadField \/ TestShow \/ TestQuiet

SpecCss == CssInit /\ [][CssNext]_vars

(* ------------- the scenarios of main.py and test_CssCode.py ------------ *)
\* rep_code(7) of main.py
RepDemo == 7

Scenarios ==
  << [name |-> "hamming", n |-> 7, hx |-> MatV(Hamming74), hz |-> MatV(Hamming74),
      kwargs |-> <<>>] >>
  \o [i \in 1..(MaxRep - 1) |->
        [name |-> "rep", n |-> i + 1, hx |-> MatV(RepCode(i + 1)), hz |-> NoneV,
         kwargs |-> <<>>]]
  \o << [name |-> "rep", n |-> RepDemo, hx |-> MatV(RepCode(RepDemo)), hz |-> NoneV,
         kwargs |-> <<>>] >>

ScenarioInit ==
  /\ mode = "scenario"
  /\ re = NoRun
  /\ \E i \in 1..Len(Scenarios) : Constructed(Scenarios[i], Dist1)

ReadScenario == \E f \in {"N", "K", "lx", "lz"} : Read(f)

ScenarioNext == ReadScenario \/ TestShow \/ TestQuiet

SpecScenario == ScenarioInit /\ [][ScenarioNext]_vars

\* an instance built without keywords, in the runs of SpecCss
Plain == mode = "instance" /\ Alive /\ Len(input.kwargs) = 0

TestRan == mode = "instance" /\ last.op = "test" /\ Len(last.raw) > 0

IsTrue(v) == v.t = "bool" /\ v.v
IsFalse(v) == v.t = "bool" /\ ~v.v

\* C3: in test the six checks are evaluated in list order, each on its own: a
\* check that raises is recorded as None, the checks after it are still
\* evaluated, the exception does not reach the caller, and test returns true
\* exactly when all six checks evaluated to true.
C3_ChecksIndependent ==
  TestRan =>
    /\ Len(last.raw) = NumTests /\ Len(last.results) = NumTests
    /\ \A i \in 1..NumTests :
         /\ last.raw[i].t \in {"bool", "exc"}
         /\ last.raw[i].t = "exc" => last.results[i].t = "None"
         /\ last.raw[i].t = "bool" =>
              last.results[i].t = "bool" /\ last.results[i].v = last.raw[i].v
    /\ last.v.t = "bool"
    /\ last.v.v = (\A i \in 1..NumTests : IsTrue(last.raw[i]))

\* a test call in which a check raised, a later check passed, and test returned false
C3_Witness ==
  /\ TestRan
  /\ \E i, k \in 1..NumTests :
       i < k /\ last.raw[i].t = "exc" /\ IsTrue(last.raw[k])
  /\ IsFalse(last.v)

\* C4 as stated: without an override the body of each derived field runs at
\* most once.
C4_RunsAtMostOnce == Plain => \A f \in Fields : obj.runs[f] <= 1

\* C4 amended: without an override the body of each derived field returns a
\* value at most once; once it has, the field is frozen, its body never runs
\* again, and every read returns the stored value (a body that raises stores
\* nothing and runs again at the next read).
C4_ComputedOnce ==
  /\ [](Plain =>
         /\ \A f \in Fields :
              /\ obj.completed[f] <= 1
              /\ Has(f) <=> obj.completed[f] = 1
         /\ (last.op = "read" /\ last.v.t # "exc") =>
              /\ Has(last.arg)
              /\ last.v.t = obj.d[last.arg].t
              /\ last.v.v = obj.d[last.arg].v)
  /\ [][Plain =>
          \A f \in Fields :
            Has(f) => /\ obj'.d[f] = obj.d[f]
                      /\ obj'.runs[f] = obj.runs[f]]_vars

\* on the instance without columns the body of L raised at its second run as
\* at its first, while N, computed once by the constructor, stays stored
C4_Witness ==
  /\ Plain
  /\ last.op = "read" /\ last.arg = "L" /\ last.v.t = "exc"
  /\ obj.runs["L"] = 2 /\ obj.completed["L"] = 0
  /\ Has("N") /\ obj.runs["N"] = 1 /\ obj.completed["N"] = 1

\* C7: hx = hz = the [7,4] Hamming matrix gives N = 7, K = 1, lx and lz of
\* shape 1 x 7, every check true and test() true.
C7_HammingScenario ==
  (mode = "scenario" /\ input.name = "hamming") =>
    /\ Has("N") => PyEq(obj.d["N"], 7)
    /\ Has("K") => PyEq(obj.d["K"], 1)
    /\ Has("lx") => obj.d["lx"].v.nr = 1 /\ obj.d["lx"].v.nc = 7
    /\ Has("lz") => obj.d["lz"].v.nr = 1 /\ obj.d["lz"].v.nc = 7
    /\ last.op = "test" =>
         /\ Len(last.results) = NumTests
         /\ \A i \in 1..NumTests : IsTrue(last.results[i])
         /\ IsTrue(last.v)

\* test() (with its report) returned on the Hamming instance with K and both
\* logical bases in place
C7_Witness ==
  /\ mode = "scenario" /\ input.name = "hamming"
  /\ last.op = "test" /\ last.arg = "show" /\ IsTrue(last.v)
  /\ Has("K") /\ Has("lx") /\ Has("lz") /\ Has("N")

RepTested(n) ==
  mode = "scenario" /\ input.name = "rep" /\ input.n = n /\ last.op = "test"

FailsAfterFirst ==
  /\ Len(last.results) = NumTests
  /\ \E i \in 2..NumTests : IsFalse(last.results[i])
  /\ IsFalse(last.v)

\* C8 as stated: for hx = hz = a repetition-code check matrix at least one of
\* the checks 2 to 6 is false and test() returns false.
C8_RepetitionScenario ==
  \A n \in 2..RepDemo : RepTested(n) => FailsAfterFirst

\* C8 amended: the same for the repetition codes of length 3 and more (the
\* single check [1 1] of length 2 is orthogonal to itself and passes).
C8_RepetitionFrom3 ==
  \A n \in 3..RepDemo : RepTested(n) => FailsAfterFirst

\* test() returned false on rep_code(7) although the checks 4 and 5 passed
C8_Witness ==
  /\ RepTested(RepDemo)
  /\ IsFalse(last.v)
  /\ IsTrue(last.results[4]) /\ IsTrue(last.results[5])
  /\ IsFalse(last.results[2])

(* ---------------- overrides: construction keywords and set ------------- *)
MaxSets == 2

\* the constructor calls of the runs with overrides
SetConstructions ==
  << [name |-> "c422", hx |-> MatV(Ones4), hz |-> MatV(Ones4), kwargs |-> <<>>],
     [name |-> "c422_D", hx |-> MatV(Ones4), hz |-> MatV(Ones4),
      kwargs |-> << <<"D", IntV(3)>> >>],
     [name |-> "empty_D", hx |-> NoneV, hz |-> NoneV,
      kwargs |-> << <<"D", IntV(3)>> >>] >>

\* the overrides set(field=value) of the runs
SetChoices ==
  << <<"D", IntV(3)>>, <<"K", IntV(7)>>, <<"lx", MatV(BadShape)>> >>

\* what the caller supplied so far: per field the latest value (val) and the
\* number of runs of its body at that moment (runs); the fields given as
\* constructor keywords (ctor); the number of set calls (sets)
SuppliedAt(kwargs, o) ==
  [val |-> [f \in Fields |->
              IF \E k \in 1..Len(kwargs) : kwargs[k][1] = f
              THEN kwargs[CHOOSE k \in 1..Len(kwargs) : kwargs[k][1] = f][2]
              ELSE Absent],
   runs |-> o.runs,
   ctor |-> {kwargs[k][1] : k \in 1..Len(kwargs)},
   sets |-> 0]

SetInit ==
  /\ mode = "set"
  /\ re = NoRun
  /\ \E i \in 1..Len(SetConstructions) :
       /\ ConstructedAs(SetConstructions[i],
                        init(SetConstructions[i].hx, SetConstructions[i].hz,
                             SetConstructions[i].kwargs, Dist1))
       /\ supplied = SuppliedAt(SetConstructions[i].kwargs, obj)

\* a call set(f=v)
SetField ==
  /\ Alive /\ supplied.sets < MaxSets
  /\ \E i \in 1..Len(SetChoices) :
       /\ obj' = set(obj, <<SetChoices[i]>>)
       /\ last' = [Call("set", SetChoices[i][1], NoneV, <<>>, <<>>)
                     EXCEPT !.diag = <<SetChoices[i][1]>>]
       /\ supplied' = [supplied EXCEPT !.val[SetChoices[i][1]] = SetChoices[i][2],
                                       !.runs[SetChoices[i][1]] = obj.runs[SetChoices[i][1]],
                                       !.sets = @ + 1]
  /\ UNCHANGED <<re, input, mode>>

ReadAfterSet == \E f \in {"N", "K", "D", "lx", "valid", "code_params"} : Read(f)

SetNext == SetField \/ ReadAfterSet \/ TestShow \/ TestQuiet

SpecSet == SetInit /\ [][SetNext]_vars

SameValue(a, b) == a.t = b.t /\ a.v = b.v

\* C5: a derived field supplied as a constructor keyword or through set is
\* honored: every later read of it returns the supplied value, its body is
\* not run after it was supplied, and with D supplied at construction the
\* distance oracle is never invoked.
C5_SuppliedHonored ==
  (mode = "set" /\ Alive) =>
    /\ \A f \in Fields :
         supplied.val[f].t # "absent" => obj.runs[f] = supplied.runs[f]
    /\ (last.op = "read" /\ supplied.val[last.arg].t # "absent") =>
         SameValue(last.v, supplied.val[last.arg])
    /\ "D" \in supplied.ctor => obj.oracle = 0

(* ------------------- HGP on all small pairs (h1, h2) ------------------- *)
HgpRows == 2
HgpCols == 2

HgpInputs == UNION {Mat(m, n) : m \in 1..HgpRows, n \in 1..HgpCols}

\* the state after HGP(h1, h2) returned; given tells whether h2 was passed
HGPBuilt(h1, h2, given) ==
  /\ input = [h1 |-> HGP_h1(h1), h2 |-> HGP_h2(h1, h2), given |-> given, kwargs |-> <<>>]
  /\ ConstructedAs(input, HGP_init(h1, h2, <<>>, Dist1))
  /\ supplied = NoObject

HGPInit ==
  /\ mode = "hgp"
  /\ re = NoRun
  /\ \E h1 \in HgpInputs :
       \/ \E h2 \in HgpInputs : HGPBuilt(MatV(h1), MatV(h2), TRUE)
       \/ HGPBuilt(MatV(h1), NoneV, FALSE)

ReadHGP == \E f \in {"K", "D", "valid"} : Read(f)

HGPNext == ReadHGP \/ TestShow \/ TestQuiet

SpecHGP == HGPInit /\ [][HGPNext]_vars

\* C6: for h1 (m1 x n1) and h2 (m2 x n2), HGP gives hx of shape
\* (m1*n2, n1*n2 + m1*m2) and hz with as many columns, hx @ hz^T = 0, all six
\* checks pass and test() (and valid) is true.
C6_HGPValid ==
  mode = "hgp" =>
    /\ obj.kind = "HGP"
    /\ obj.hx.nr = input.h1.nr * input.h2.nc
    /\ obj.hx.nc = input.h1.nc * input.h2.nc + input.h1.nr * input.h2.nr
    /\ obj.hz.nc = obj.hx.nc
    /\ IsZero(MatMul(obj.hx, Transpose(obj.hz)))
    /\ last.op = "test" =>
         /\ Len(last.results) = NumTests
         /\ \A i \in 1..NumTests : IsTrue(last.results[i])
         /\ IsTrue(last.v)
    /\ (last.op = "read" /\ last.arg = "valid") => IsTrue(last.v)

\* test() returned true for two different factors of different shapes whose
\* product code has logical qubits
C6_Witness ==
  /\ mode = "hgp" /\ last.op = "test" /\ IsTrue(last.v)
  /\ input.given
  /\ input.h1.nr = 1 /\ input.h1.nc = 2 /\ input.h2.nr = 2 /\ input.h2.nc = 2
  /\ ~IsZero(input.h1) /\ ~IsZero(input.h2)
  /\ Has("K") /\ obj.d["K"].v > 0

(* --------------------------------- save -------------------------------- *)
\* the property lists of the runs; "missing" is no attribute of the instance
SaveLists ==
  << <<"hx", "hz">>, <<"missing", "hx">>, <<"N", "hx">>, <<"lx", "lz">> >>

SaveInit ==
  /\ mode = "save"
  /\ re = NoRun
  /\ \E i \in 1..Len(Constructions) : Constructed(Constructions[i], Dist1)

Saved(props, s) ==
  /\ obj' = s.o
  /\ last' = [Call("save", "", s.v, <<>>, <<>>)
                EXCEPT !.files = s.files, !.diag = s.diag, !.props = props]

\* a call save(save_property)
Save ==
  /\ Alive /\ CanRun
  /\ \E i \in 1..Len(SaveLists), ok \in BOOLEAN :
       Saved(SaveLists[i], save(obj, SaveLists[i], ok, <<>>, <<>>))
  /\ UNCHANGED <<re, input, supplied, mode>>

ReadBeforeSave == \E f \in {"N", "K", "L", "lx", "lz", "h"} : Read(f)

SaveNext == Save \/ ReadBeforeSave

SpecSave == SaveInit /\ [][SaveNext]_vars

\* the property p of the instance is an array
IsArrayProp(p) ==
  \/ p \in {"hx", "hz"}
  \/ p \in Fields /\ obj.d[p].t = "mat"

\* C9: save skips a listed property that is missing or no array (a diagnostic,
\* no file), does not fail, and writes one file for every listed array.
C9_SaveSkips ==
  (mode = "save" /\ last.op = "save") =>
    /\ last.v.t # "exc"
    /\ last.files = SelectSeq(last.props, IsArrayProp)
    /\ \A k \in 1..Len(last.props) :
         ~IsArrayProp(last.props[k]) => \E d \in 1..Len(last.diag) : last.diag[d] = last.props[k]

(* ------------------- row_echelon on its own output --------------------- *)
IdemInit ==
  /\ mode = "idempotent"
  /\ obj = NoObject /\ last = NoCall /\ supplied = NoObject
  /\ \E M \in REInputs, full \in BOOLEAN :
       /\ input = M
       /\ re = NewRun(M, full)

\* the call row_echelon(A, full) returned (R, r, T, P); the caller passes R to
\* a second call, which does not reduce further than the first did (the
\* default, full = False, after either call; full = True after full = True)
REAgain ==
  /\ mode = "idempotent" /\ re.pc = "done" /\ last = NoCall
  /\ \E full \in BOOLEAN :
       /\ full => re.full
       /\ re' = NewRun(re.ret[1], full)
  /\ input' = re.ret[1]
  /\ last' = [op |-> "row_echelon", matrix |-> re.matrix, full |-> re.full,
              ret |-> re.ret]
  /\ UNCHANGED <<obj, supplied, mode>>

IdemNext ==
  RESelect \/ REPivot \/ REEliminate \/ REAdvance \/ RENextCol \/ REReturn \/ REAgain

SpecIdem == IdemInit /\ [][IdemNext]_vars

\* the second call returned
SecondDone == mode = "idempotent" /\ last.op = "row_echelon" /\ re.pc = "done"

\* C11: for row_echelon(A) = (R, r, T, P), row_echelon(R) returns the echelon
\* form R, the rank r and the pivot columns P.
C11_Idempotent ==
  SecondDone =>
    /\ re.ret[1] = last.ret[1]
    /\ re.ret[2] = last.ret[2]
    /\ re.ret[4] = last.ret[4]

\* the second call returned for a matrix of rank 2 that the first call had to
\* change by a swap (its first pivot column starts with 0)
C11_Witness ==
  /\ SecondDone
  /\ last.ret[1] # last.matrix
  /\ last.ret[2] = 2 /\ last.matrix.nr = 3
  /\ last.matrix.a[0][last.ret[4][1]] = 0

(* ------------- overrides of fields that others were derived from ------- *)
\* a 2 x 4 array that is no basis of logical operators of the [[4,2,2]] code
OffKernel == FromRows(<< <<1, 0, 0, 0>>, <<0, 1, 0, 0>> >>)

\* the overrides set(field=value) of the runs
OverrideChoices ==
  << <<"N", IntV(5)>>, <<"D", IntV(3)>>, <<"lx", MatV(OffKernel)>>,
     <<"lz", MatV(OffKernel)>> >>

\* CssCode(hx, hz) of the [[4,2,2]] code; supplied holds the number of set
\* calls, the field of the latest one, its value, and the instance as it was
\* when that call was made
OverrideInit ==
  /\ mode = "override"
  /\ re = NoRun
  /\ ConstructedAs(Constructions[1],
                   init(Constructions[1].hx, Constructions[1].hz,
                        Constructions[1].kwargs, Dist1))
  /\ supplied = [sets |-> 0, key |-> "", value |-> NoneV, before |-> obj]

\* a call set(f=v)
Override ==
  /\ Alive /\ supplied.sets < MaxSets
  /\ \E i \in 1..Len(OverrideChoices) :
       /\ obj' = set(obj, <<OverrideChoices[i]>>)
       /\ last' = [Call("set", OverrideChoices[i][1], NoneV, <<>>, <<>>)
                     EXCEPT !.diag = <<OverrideChoices[i][1]>>]
       /\ supplied' = [sets |-> supplied.sets + 1, key |-> OverrideChoices[i][1],
                       value |-> OverrideChoices[i][2], before |-> obj]
  /\ UNCHANGED <<re, input, mode>>

ReadOverridden ==
  \E f \in {"N", "K", "D", "lx", "lz", "l", "canonical_lx", "valid", "code_params"} :
    Read(f)

OverrideNext == Override \/ ReadOverridden

SpecOverride == OverrideInit /\ [][OverrideNext]_vars

\* the field g was cached when the latest set call was made, and is not the
\* field that call named
CachedBefore(g) == g # supplied.key /\ supplied.before.d[g].t # "absent"

\* the cached value of g is not what the body of g returns now
Stale(g) == Has(g) /\ ~SameValue(obj.d[g], fget(g, obj).v)

\* C12: set(field=value) changes only the slot of the named field; every
\* other field that was cached keeps its cached value, its body is not run
\* again, and a later read of it returns the value cached before the override.
C12_OverrideKeepsCache ==
  (mode = "override" /\ supplied.sets > 0) =>
    /\ \A g \in Fields :
         CachedBefore(g) =>
           /\ SameValue(obj.d[g], supplied.before.d[g])
           /\ obj.runs[g] = supplied.before.runs[g]
           /\ obj.completed[g] = supplied.before.completed[g]
    /\ last.op = "set" =>
         /\ SameValue(obj.d[supplied.key], supplied.value)
         /\ obj = [supplied.before EXCEPT !.d[supplied.key] = obj.d[supplied.key]]
    /\ (last.op = "read" /\ CachedBefore(last.arg)) =>
         /\ last.hit
         /\ SameValue(last.v, supplied.before.d[last.arg])

\* N and D were overridden after K and code_params were cached: the read of
\* code_params is served from the cache, and the cached K, code_params and
\* (after an override of lx or lz in another run) valid disagree with what
\* their bodies return now
C12_Witness ==
  /\ mode = "override" /\ supplied.sets = 2
  /\ last.op = "read" /\ last.arg = "code_params" /\ last.hit
  /\ obj.d["N"] = IntV(5) /\ obj.d["D"] = IntV(3)
  /\ Stale("K") /\ Stale("code_params")

====
